---- MODULE Spec2Model ----
(***************************************************************************)
(* The AK400 DIGITAL PRO telemetry loop of deepcool-digital-linux:         *)
(* Display::run_device (src/devices/ak400_pro.rs) and the Cpu sampler it   *)
(* calls (src/monitor/cpu.rs).                                             *)
(*                                                                         *)
(* Rust's u64 and u32 are kept at their full width.  TLC's integers are    *)
(* 32-bit, so a machine word is a little-endian sequence of 16-bit limbs   *)
(* (four limbs for u64, two for u32) and the arithmetic of the source is   *)
(* carried out limb by limb, with its overflow made explicit.  An integer  *)
(* overflow in Rust panics when the build has overflow checks (the debug   *)
(* profile) and wraps otherwise (the release profile): overflow_checks     *)
(* picks the build.                                                        *)
(*                                                                         *)
(* A byte array [u8; 64] is a sequence of 64 numbers; byte i of the        *)
(* source is element i + 1 of the sequence (see Byte).                     *)
(***************************************************************************)
EXTENDS Integers, Sequences, FiniteSets, TLC

VARIABLES
    \* struct Cpu and struct Display, fixed at construction
    temp_sensor,      \* Cpu.temp_sensor is Some(_)
    rapl_max_uj,      \* Cpu.rapl_max_uj : u64
    update,           \* Display.update, in microseconds
    fahrenheit,       \* Display.fahrenheit
    overflow_checks,  \* the build panics on integer overflow
    \* run_device
    pc,               \* position in run_device (or in a direct get_power call)
    base_data,        \* the header template
    status_data,      \* the packet of the current iteration
    cycle,            \* iterations begun
    writes,           \* packets written to the device
    prev_fail,        \* a sensor or energy read failed in an earlier iteration
    \* the locals of one iteration
    cpu_instant,      \* iteration in which the baseline CpuInstant was taken
    cpu_energy,       \* baseline energy : u64
    energy_file,      \* what energy_uj held at the baseline read
    current_file,     \* what energy_uj held at the read inside get_power
    power,            \* get_power's result : u16
    temp_file,        \* what temp1_input held
    temp_milli,       \* get_temp's `temp` just before the division : u32
    temp,             \* get_temp's result : u8
    usage_from,       \* iteration of the baseline handed to get_usage
    usage,            \* get_usage's result : u8
    trace             \* the events of the current iteration, in order

cfg_vars == <<temp_sensor, rapl_max_uj, update, fahrenheit, overflow_checks>>
loop_vars == <<base_data, status_data, cycle, writes, prev_fail>>
local_vars == <<cpu_instant, cpu_energy, energy_file, current_file, power,
                temp_file, temp_milli, temp, usage_from, usage>>
vars == <<cfg_vars, pc, loop_vars, local_vars, trace>>

---------------------------------------------------------------------------
(* Bounds of the model *)

\* iterations of the loop the model follows
MaxCycles == 2
\* the update interval ranges over 0 .. MaxUpdate half-milliseconds
MaxUpdate == 4

---------------------------------------------------------------------------
(* Machine words *)

Limb == 2^16

RECURSIVE CarryInto(_, _, _)
\* the carry into limb i of a + b
CarryInto(a, b, i) ==
    IF i = 1 THEN 0 ELSE (a[i-1] + b[i-1] + CarryInto(a, b, i-1)) \div Limb
\* a + b, wrapped to the width of a
WrappingAdd(a, b) == [i \in 1..Len(a) |-> (a[i] + b[i] + CarryInto(a, b, i)) % Limb]
AddOverflows(a, b) == CarryInto(a, b, Len(a) + 1) > 0

RECURSIVE BorrowInto(_, _, _)
\* the borrow into limb i of a - b
BorrowInto(a, b, i) ==
    IF i = 1 THEN 0
    ELSE IF a[i-1] - b[i-1] - BorrowInto(a, b, i-1) < 0 THEN 1 ELSE 0
\* a - b, wrapped to the width of a
WrappingSub(a, b) ==
    [i \in 1..Len(a) |-> (Limb + a[i] - b[i] - BorrowInto(a, b, i)) % Limb]
SubOverflows(a, b) == BorrowInto(a, b, Len(a) + 1) > 0
\* a < b
Less(a, b) == SubOverflows(a, b)

RECURSIVE MulCarryInto(_, _, _)
\* the carry into limb i of a * k, for a small k
MulCarryInto(a, k, i) ==
    IF i = 1 THEN 0 ELSE (a[i-1] * k + MulCarryInto(a, k, i-1)) \div Limb
WrappingMul(a, k) == [i \in 1..Len(a) |-> (a[i] * k + MulCarryInto(a, k, i)) % Limb]
MulOverflows(a, k) == MulCarryInto(a, k, Len(a) + 1) > 0

RECURSIVE RemInto(_, _, _)
\* the remainder carried into limb i of a / k, for a small k
RemInto(a, k, i) ==
    IF i = Len(a) THEN 0 ELSE (RemInto(a, k, i+1) * Limb + a[i+1]) % k
\* a / k, truncated
Div(a, k) == [i \in 1..Len(a) |-> (RemInto(a, k, i) * Limb + a[i]) \div k]

\* the word of n limbs that holds the number v (v below 2^31)
Word(v, n) ==
    [i \in 1..n |-> IF i = 1 THEN v % Limb ELSE IF i = 2 THEN v \div Limb ELSE 0]
IsZero(a) == \A i \in 1..Len(a) : a[i] = 0
\* a is below 2^31
Small(a) == a[2] < Limb \div 2 /\ \A i \in 3..Len(a) : a[i] = 0
\* the number a small word holds
Value(a) == a[1] + a[2] * Limb

\* a widened to n limbs
Extend(a, n) == [i \in 1..n |-> IF i <= Len(a) THEN a[i] ELSE 0]

U64Zero == Word(0, 4)
U64Max == [i \in 1..4 |-> Limb - 1]

Min(x, y) == IF x <= y THEN x ELSE y
Max(x, y) == IF x >= y THEN x ELSE y

---------------------------------------------------------------------------
(* Files of the sensor tree and the energy-accounting interface *)

\* read_to_string fails
Unreadable == [kind |-> "unreadable", digits |-> <<>>]
\* the file holds something that is no decimal number
Garbage == [kind |-> "text", digits |-> <<>>]
\* the file holds the decimal number whose limbs are d
Number(d) == [kind |-> "number", digits |-> d]
\* no read took place
NoFile == [kind |-> "none", digits |-> <<>>]

\* str::parse::<uN>() for a word of n limbs: Ok iff the text is a number in range
ParseOk(file, n) ==
    /\ file.kind = "number"
    /\ \A i \in (n+1)..Len(file.digits) : file.digits[i] = 0
Parsed(file, n) == [i \in 1..n |-> file.digits[i]]

\* what energy_uj may hold (five limbs: a number may exceed u64)
EnergyFiles ==
    {Unreadable, Garbage, Number(Extend(U64Max, 5))}
        \cup {Number(Word(v, 5)) : v \in {0, 1, 501, 1000400}}
\* what temp1_input may hold (three limbs: a number may exceed u32)
TempFiles ==
    {Unreadable, Number(<<0, 0, 1>>)}
        \cup {Number(Word(v, 3)) : v \in {45499, 45500, 300000, 477218589}}
\* what max_energy_range_uj gave at construction (0: no RAPL)
RaplRanges == {U64Zero, Word(1000000, 4), U64Max}
\* 100 * non_idle() of an instant delta, rounded, before the clamp
UsageReadings == {-1, 37, 101}

---------------------------------------------------------------------------
(* Cpu: the telemetry sampler (src/monitor/cpu.rs) *)

\* Cpu::read_energy: 0 without RAPL, 0 when the file cannot be read or parsed
read_energy(max, file) ==
    IF IsZero(max) THEN U64Zero
    ELSE IF file.kind = "unreadable" THEN U64Zero
    ELSE IF ParseOk(file, 4) THEN Parsed(file, 4)
    ELSE U64Zero

\* read_energy opens the file only when RAPL was probed
EnergyInputs(max) == IF IsZero(max) THEN {NoFile} ELSE EnergyFiles

\* Watts with the quotient truncated instead of rounded
WattsTruncated(delta, ms) ==
    IF ~Small(delta) THEN 999 ELSE Min(Value(delta) \div (ms * 1000), 999)

\* ((delta as f64) / (ms as f64 * 1000.0)).round().min(999.0) as u16.
\* Both conversions and the division are exact for the intervals of the
\* model (999.5 * ms * 1000 is far below 2^31 and 2^53): a delta of 2^31 or
\* more rounds to more than 999, a smaller one is divided as an integer and
\* rounded half away from zero.
Watts(delta, ms) ==
    IF ~Small(delta) THEN 999
    ELSE LET d == ms * 1000
             q == Value(delta) \div d
             r == Value(delta) % d
         IN  Min(q + (IF 2 * r >= d THEN 1 ELSE 0), 999)

\* the counter-wrap branch without the range of the counter: current - initial
WrapDeltaNoRange(max, current, initial, checks) ==
    IF checks /\ SubOverflows(current, initial)
    THEN [panic |-> TRUE, delta |-> U64Zero]
    ELSE [panic |-> FALSE, delta |-> WrappingSub(current, initial)]

\* The counter-wrap branch of get_power: (rapl_max_uj + current) - initial
\* in u64.  Either operation may overflow: a panic with overflow checks, a
\* wrapped word without.
WrapDelta(max, current, initial, checks) ==
    LET sum == WrappingAdd(max, current)
    IN  IF checks /\ (AddOverflows(max, current) \/ SubOverflows(sum, initial))
        THEN [panic |-> TRUE, delta |-> U64Zero]
        ELSE [panic |-> FALSE, delta |-> WrappingSub(sum, initial)]

\* get_power without the test of the baseline
get_power_unguarded(max, initial_energy, delta_millisec, file, checks) ==
    IF IsZero(max) \/ delta_millisec = 0
    THEN [panic |-> FALSE, read |-> FALSE, val |-> 0]
    ELSE LET current_energy == read_energy(max, file)
         IN  IF IsZero(current_energy)
             THEN [panic |-> FALSE, read |-> TRUE, val |-> 0]
             ELSE IF ~Less(current_energy, initial_energy)
             THEN [panic |-> FALSE, read |-> TRUE,
                   val |-> Watts(WrappingSub(current_energy, initial_energy),
                                 delta_millisec)]
             ELSE [panic |-> FALSE, read |-> TRUE,
                   val |-> Watts(WrapDelta(max, current_energy, initial_energy,
                                           FALSE).delta, delta_millisec)]

\* get_power with the live read moved in front of its guards
get_power_reads_first(max, initial_energy, delta_millisec, file, checks) ==
    LET current_energy == read_energy(max, file)
    IN  IF IsZero(max) \/ IsZero(initial_energy) \/ delta_millisec = 0
           \/ IsZero(current_energy)
        THEN [panic |-> FALSE, read |-> TRUE, val |-> 0]
        ELSE IF ~Less(current_energy, initial_energy)
        THEN [panic |-> FALSE, read |-> TRUE,
              val |-> Watts(WrappingSub(current_energy, initial_energy),
                            delta_millisec)]
        ELSE LET w == WrapDelta(max, current_energy, initial_energy, checks)
             IN  [panic |-> w.panic, read |-> TRUE,
                  val |-> IF w.panic THEN 0 ELSE Watts(w.delta, delta_millisec)]

\* Cpu::get_power.  file is what energy_uj holds when get_power reads it;
\* read tells whether it was read at all.
get_power(max, initial_energy, delta_millisec, file, checks) ==
    IF IsZero(max) \/ IsZero(initial_energy) \/ delta_millisec = 0
    THEN [panic |-> FALSE, read |-> FALSE, val |-> 0]
    ELSE LET current_energy == read_energy(max, file)
         IN  IF IsZero(current_energy)
             THEN [panic |-> FALSE, read |-> TRUE, val |-> 0]
             ELSE IF ~Less(current_energy, initial_energy)
             THEN [panic |-> FALSE, read |-> TRUE,
                   val |-> Watts(WrappingSub(current_energy, initial_energy),
                                 delta_millisec)]
             ELSE LET w == WrapDelta(max, current_energy, initial_energy, checks)
                  IN  IF w.panic
                      THEN [panic |-> TRUE, read |-> TRUE, val |-> 0]
                      ELSE [panic |-> FALSE, read |-> TRUE,
                            val |-> Watts(w.delta, delta_millisec)]

\* temp = temp * 9 / 5 + 32_000 in u32: the multiplication may overflow (the
\* sum cannot: a fifth of a u32 plus 32000 is below 2^32)
Fahrenheit(t, checks) ==
    IF checks /\ MulOverflows(t, 9)
    THEN [panic |-> TRUE, milli |-> t]
    ELSE [panic |-> FALSE,
          milli |-> WrappingAdd(Div(WrappingMul(t, 9), 5), Word(32000, 2))]

\* ((temp as f32) / 1000.0).round() as u8: rounded half away from zero, and
\* the cast saturates at 255
RoundToU8(milli) ==
    IF ~Small(milli) THEN 255
    ELSE Min(Value(milli) \div 1000
                 + (IF Value(milli) % 1000 >= 500 THEN 1 ELSE 0), 255)

\* get_temp that converts the fallback 0 as if it were a reading
get_temp_converts_fallback(sensor, fahr, file, checks) ==
    LET t == IF sensor /\ file.kind # "unreadable" /\ ParseOk(file, 2)
             THEN Parsed(file, 2) ELSE Word(0, 2)
        f == IF fahr THEN Fahrenheit(t, checks) ELSE [panic |-> FALSE, milli |-> t]
    IN  [panic |-> f.panic, milli |-> f.milli,
         val |-> IF f.panic THEN 0 ELSE RoundToU8(f.milli)]

\* get_temp that unwraps the read and the parse instead of falling back to 0
get_temp_unwraps(sensor, fahr, file, checks) ==
    IF ~sensor THEN [panic |-> FALSE, milli |-> Word(0, 2), val |-> 0]
    ELSE IF file.kind = "unreadable" \/ ~ParseOk(file, 2)
    THEN [panic |-> TRUE, milli |-> Word(0, 2), val |-> 0]
    ELSE LET t == Parsed(file, 2)
             f == IF fahr THEN Fahrenheit(t, checks)
                          ELSE [panic |-> FALSE, milli |-> t]
         IN  [panic |-> f.panic, milli |-> f.milli,
              val |-> IF f.panic THEN 0 ELSE RoundToU8(f.milli)]

\* Cpu::get_temp.  sensor: a sensor was probed; file: what temp1_input holds.
get_temp(sensor, fahr, file, checks) ==
    IF ~sensor THEN [panic |-> FALSE, milli |-> Word(0, 2), val |-> 0]
    ELSE IF file.kind = "unreadable" \/ ~ParseOk(file, 2)
    THEN [panic |-> FALSE, milli |-> Word(0, 2), val |-> 0]
    ELSE LET t == Parsed(file, 2)
             f == IF fahr THEN Fahrenheit(t, checks)
                          ELSE [panic |-> FALSE, milli |-> t]
         IN  [panic |-> f.panic, milli |-> f.milli,
              val |-> IF f.panic THEN 0 ELSE RoundToU8(f.milli)]

\* get_temp opens the file only when a sensor was probed
TempInputs(sensor) == IF sensor THEN TempFiles ELSE {NoFile}

\* Cpu::get_usage: usage.round().clamp(0.0, 100.0) as u8
get_usage(percent) == Max(0, Min(percent, 100))

---------------------------------------------------------------------------
(* Display: the packet (src/devices/ak400_pro.rs) *)

\* byte i of a [u8; 64]
Byte(d, i) == d[i + 1]
\* d with byte i set to v
SetByte(d, i, v) == [d EXCEPT ![i + 1] = v]

\* the base HID packet
BaseData ==
    [i \in 1..64 |->
        CASE i = 1 -> 16 [] i = 2 -> 104 [] i = 3 -> 1 [] i = 4 -> 2
          [] i = 5 -> 11  [] i = 6 -> 1  [] i = 7 -> 2 [] i = 8 -> 5
          [] OTHER -> 0]

\* u16::to_be_bytes
U16BeBytes(v) == <<v \div 256, v % 256>>

RECURSIVE Log2(_)
Log2(n) == IF n < 2 THEN 0 ELSE 1 + Log2(n \div 2)
\* the IEEE-754 binary32 bits of (v as f32), for a u8 v
F32Bits(v) ==
    IF v = 0 THEN 0
    ELSE LET e == Log2(v) IN (127 + e) * 2^23 + (v - 2^e) * 2^(23 - e)
\* f32::to_be_bytes of (v as f32)
F32BeBytes(v) ==
    LET b == F32Bits(v)
    IN  <<b \div 2^24, (b \div 2^16) % 256, (b \div 2^8) % 256, b % 256>>

RECURSIVE SumBytes(_, _, _)
\* d[lo] + ... + d[hi], as u16 (fifteen bytes cannot overflow it)
SumBytes(d, lo, hi) ==
    IF lo > hi THEN 0 ELSE Byte(d, lo) + SumBytes(d, lo + 1, hi)
\* the checksum taken over status_data[0..=15]
ChecksumFromZero(d) == (SumBytes(d, 0, 15) % 2^16) % 256

\* the checksum of run_device: status_data[1..=15] summed, modulo 256
Checksum(d) == (SumBytes(d, 1, 15) % 2^16) % 256

\* Duration::as_millis of an interval given in microseconds
AsMillis(us) == us \div 1000

---------------------------------------------------------------------------
(* The state after construction *)

\* a read of this iteration that failed: the file was unreadable or unparseable
ReadFailed(file, n) == file.kind \notin {"none"} /\ ~ParseOk(file, n)
CycleFailed ==
    ReadFailed(energy_file, 4) \/ ReadFailed(current_file, 4) \/ ReadFailed(temp_file, 2)

\* the locals of an iteration before any of them is bound
FreshLocals ==
    /\ cpu_instant' = 0
    /\ cpu_energy' = U64Zero
    /\ energy_file' = NoFile
    /\ current_file' = NoFile
    /\ power' = 0
    /\ temp_file' = NoFile
    /\ temp_milli' = Word(0, 2)
    /\ temp' = 0
    /\ usage_from' = 0
    /\ usage' = 0

\* the intervals a Display may be built with, in microseconds
Updates == {500 * k : k \in 0..MaxUpdate}

\* Cpu::new and Display::new have run; run_device is about to be entered
InitRun ==
    /\ temp_sensor \in BOOLEAN
    /\ rapl_max_uj \in RaplRanges
    /\ update \in Updates
    /\ fahrenheit \in BOOLEAN
    /\ overflow_checks \in BOOLEAN
    /\ pc = "start"
    /\ cpu_energy = U64Zero

\* Cpu::new has run; get_power is about to be called by itself, with any
\* baseline and the interval of `update`
InitCall ==
    /\ temp_sensor = FALSE
    /\ rapl_max_uj \in RaplRanges
    /\ update \in Updates
    /\ fahrenheit = FALSE
    /\ overflow_checks \in BOOLEAN
    /\ pc = "call"
    /\ cpu_energy \in {read_energy(U64Max, f) : f \in EnergyFiles}

Init ==
    /\ InitRun \/ InitCall
    /\ base_data = <<>>
    /\ status_data = <<>>
    /\ cycle = 0
    /\ writes = 0
    /\ prev_fail = FALSE
    /\ cpu_instant = 0
    /\ energy_file = NoFile
    /\ current_file = NoFile
    /\ power = 0
    /\ temp_file = NoFile
    /\ temp_milli = Word(0, 2)
    /\ temp = 0
    /\ usage_from = 0
    /\ usage = 0
    /\ trace = <<>>

---------------------------------------------------------------------------
(* Display::run_device, statement by statement *)

\* warn_temp, warn_rapl (they only print) and the base packet
Start ==
    /\ pc = "start"
    /\ base_data' = BaseData
    /\ pc' = "loop"
    /\ UNCHANGED <<cfg_vars, status_data, cycle, writes, prev_fail, local_vars, trace>>

\* the iteration keeps the buffer of the one before instead of copying the base
CopyBaseStale ==
    /\ pc = "loop"
    /\ cycle < MaxCycles
    /\ status_data' = (IF cycle = 0 THEN base_data ELSE status_data)
    /\ cycle' = cycle + 1
    /\ prev_fail' = (prev_fail \/ CycleFailed)
    /\ FreshLocals
    /\ trace' = <<>>
    /\ pc' = "instant"
    /\ UNCHANGED <<cfg_vars, base_data, writes>>

\* let mut status_data = base_data: a new iteration, with new locals
CopyBase ==
    /\ pc = "loop"
    /\ cycle < MaxCycles
    /\ status_data' = base_data
    /\ cycle' = cycle + 1
    /\ prev_fail' = (prev_fail \/ CycleFailed)
    /\ FreshLocals
    /\ trace' = <<>>
    /\ pc' = "instant"
    /\ UNCHANGED <<cfg_vars, base_data, writes>>

\* let cpu_instant = self.cpu.read_instant(): exit(1) when CpuInstant::now fails
ReadInstant ==
    /\ pc = "instant"
    /\ \/ /\ cpu_instant' = cycle
          /\ trace' = Append(trace, "read_instant")
          /\ pc' = "energy"
       \/ /\ pc' = "exited"
          /\ UNCHANGED <<cpu_instant, trace>>
    /\ UNCHANGED <<cfg_vars, loop_vars, cpu_energy, energy_file, current_file,
                   power, temp_file, temp_milli, temp, usage_from, usage>>

\* let cpu_energy = self.cpu.read_energy()
ReadEnergy ==
    /\ pc = "energy"
    /\ \E file \in EnergyInputs(rapl_max_uj) :
          /\ energy_file' = file
          /\ cpu_energy' = read_energy(rapl_max_uj, file)
    /\ trace' = Append(trace, "read_energy")
    /\ pc' = "sleep"
    /\ UNCHANGED <<cfg_vars, loop_vars, cpu_instant, current_file, power,
                   temp_file, temp_milli, temp, usage_from, usage>>

\* sleep(self.update)
Sleep ==
    /\ pc = "sleep"
    /\ trace' = Append(trace, "sleep")
    /\ pc' = "power"
    /\ UNCHANGED <<cfg_vars, loop_vars, local_vars>>

\* let power = if cpu_energy > 0 { get_power(..) } else { 0 }, and bytes 8-9
Power ==
    /\ pc = "power"
    /\ IF ~IsZero(cpu_energy)
       THEN \E file \in EnergyFiles :
               LET p == get_power(rapl_max_uj, cpu_energy, AsMillis(update),
                                  file, overflow_checks)
               IN  /\ current_file' = (IF p.read THEN file ELSE NoFile)
                   /\ trace' = (IF p.read THEN Append(trace, "live_energy")
                                          ELSE trace)
                   /\ IF p.panic
                      THEN /\ pc' = "panic_get_power"
                           /\ UNCHANGED <<power, status_data>>
                      ELSE /\ power' = p.val
                           /\ status_data' =
                                SetByte(SetByte(status_data, 8, U16BeBytes(p.val)[1]),
                                        9, U16BeBytes(p.val)[2])
                           /\ pc' = "temp"
       ELSE /\ power' = 0
            /\ status_data' = SetByte(SetByte(status_data, 8, U16BeBytes(0)[1]),
                                      9, U16BeBytes(0)[2])
            /\ pc' = "temp"
            /\ UNCHANGED <<current_file, trace>>
    /\ UNCHANGED <<cfg_vars, base_data, cycle, writes, prev_fail, cpu_instant,
                   cpu_energy, energy_file, temp_file, temp_milli, temp,
                   usage_from, usage>>

\* the temperature, the unit flag and bytes 10-14
Temperature ==
    /\ pc = "temp"
    /\ \E file \in TempInputs(temp_sensor) :
          LET t == get_temp(temp_sensor, fahrenheit, file, overflow_checks)
              b == F32BeBytes(t.val)
          IN  /\ temp_file' = file
              /\ temp_milli' = t.milli
              /\ trace' = Append(trace, "get_temp")
              /\ IF t.panic
                 THEN /\ pc' = "panic_get_temp"
                      /\ UNCHANGED <<temp, status_data>>
                 ELSE /\ temp' = t.val
                      /\ status_data' =
                           [i \in 1..64 |->
                              CASE i = 11 -> (IF fahrenheit THEN 1 ELSE 0)
                                [] i \in 12..15 -> b[i - 11]
                                [] OTHER -> status_data[i]]
                      /\ pc' = "usage"
    /\ UNCHANGED <<cfg_vars, base_data, cycle, writes, prev_fail, cpu_instant,
                   cpu_energy, energy_file, current_file, power, usage_from, usage>>

\* status_data[15] = self.cpu.get_usage(cpu_instant)
Usage ==
    /\ pc = "usage"
    /\ \/ \E percent \in UsageReadings :
             /\ usage' = get_usage(percent)
             /\ usage_from' = cpu_instant
             /\ status_data' = SetByte(status_data, 15, get_usage(percent))
             /\ trace' = Append(trace, "get_usage")
             /\ pc' = "checksum"
       \/ /\ pc' = "exited"
          /\ UNCHANGED <<usage, usage_from, status_data, trace>>
    /\ UNCHANGED <<cfg_vars, base_data, cycle, writes, prev_fail, cpu_instant,
                   cpu_energy, energy_file, current_file, power, temp_file,
                   temp_milli, temp>>

\* the checksum and the terminator
ChecksumStep ==
    /\ pc = "checksum"
    /\ status_data' = SetByte(SetByte(status_data, 16, Checksum(status_data)), 17, 22)
    /\ trace' = Append(trace, "checksum")
    /\ pc' = "write"
    /\ UNCHANGED <<cfg_vars, base_data, cycle, writes, prev_fail, local_vars>>

\* device.write(&status_data).unwrap(): an Err panics
Write ==
    /\ pc = "write"
    /\ \/ /\ writes' = writes + 1
          /\ trace' = Append(trace, "write")
          /\ pc' = "loop"
       \/ /\ pc' = "panic_write"
          /\ UNCHANGED <<writes, trace>>
    /\ UNCHANGED <<cfg_vars, base_data, status_data, cycle, prev_fail, local_vars>>

\* Cpu::get_power called by itself: get_power(cpu_energy, update in ms)
CallGetPower ==
    /\ pc = "call"
    /\ \E file \in EnergyFiles :
          LET p == get_power(rapl_max_uj, cpu_energy, AsMillis(update), file,
                             overflow_checks)
          IN  /\ current_file' = (IF p.read THEN file ELSE NoFile)
              /\ power' = p.val
              /\ pc' = (IF p.panic THEN "panic_get_power" ELSE "returned")
    /\ UNCHANGED <<cfg_vars, loop_vars, cpu_instant, cpu_energy, energy_file,
                   temp_file, temp_milli, temp, usage_from, usage, trace>>

Next ==
    \/ Start
    \/ CopyBase
    \/ ReadInstant
    \/ ReadEnergy
    \/ Sleep
    \/ Power
    \/ Temperature
    \/ Usage
    \/ ChecksumStep
    \/ Write
    \/ CallGetPower

Spec == Init /\ [][Next]_vars

---------------------------------------------------------------------------
(* What the properties speak about *)

\* status_data is a packet that device.write has just accepted
Written == pc = "loop" /\ writes > 0

\* the positions of run_device after the power statement
AfterPower ==
    {"temp", "usage", "checksum", "write", "loop", "panic_write", "panic_get_temp",
     "exited"}
\* a call of get_power has returned (from run_device, or called by itself)
PowerReturned == pc = "returned" \/ (pc \in AfterPower /\ ~IsZero(cpu_energy))
\* a call of get_power has ended, by a return or by a panic
PowerEnded == PowerReturned \/ pc = "panic_get_power"
\* the live reading get_power made
Current == read_energy(rapl_max_uj, current_file)
LiveRead == current_file.kind # "none"

\* how often event e occurred in the current iteration
Count(e) == Cardinality({i \in 1..Len(trace) : trace[i] = e})
\* n / d rounded to the nearest integer, halves away from zero (n >= 0, d > 0)
Rounded(n, d) == n \div d + (IF 2 * (n % d) >= d THEN 1 ELSE 0)

\* the header of the wire format
Header == <<16, 104, 1, 2, 11, 1, 2, 5>>
\* the positions inside the loop of run_device
RunPositions ==
    {"loop", "instant", "energy", "sleep", "power", "temp", "usage", "checksum",
     "write"}

\* C1: in every packet written, byte 16 is the sum of bytes 1 to 15 modulo 256
\* and byte 17 is the terminator 22; bytes 0 and 16 to 63 do not contribute:
\* changing any of them leaves the checksum of the packet what byte 16 holds.
C1_Checksum ==
    Written =>
        /\ Byte(status_data, 16) =
             (104 + 1 + 2 + 11 + 1 + 2 + 5
              + Byte(status_data, 8) + Byte(status_data, 9)
              + Byte(status_data, 10) + Byte(status_data, 11)
              + Byte(status_data, 12) + Byte(status_data, 13)
              + Byte(status_data, 14) + Byte(status_data, 15)) % 256
        /\ Byte(status_data, 17) = 22
        /\ \A i \in {0} \cup 16..63 : \A v \in {1, 255} :
              Checksum(SetByte(status_data, i, v)) = Byte(status_data, 16)

\* a packet whose fields are all non-zero and whose byte sum passes 255
C1_Witness ==
    /\ Written
    /\ power > 255
    /\ temp > 0
    /\ usage > 0
    /\ SumBytes(status_data, 1, 15) > 255

\* C2: a call get_power(baseline, elapsed_ms) with max_range > 0, baseline > 0,
\* elapsed_ms > 0 and a live reading current > 0, current >= baseline, returns
\* round((current - baseline) / (elapsed_ms * 1000)), at most 999.
C2_Pre ==
    /\ ~IsZero(rapl_max_uj)
    /\ ~IsZero(cpu_energy)
    /\ AsMillis(update) > 0
    /\ LiveRead
    /\ ~IsZero(Current)
    /\ ~Less(Current, cpu_energy)

C2_PowerNoWrap ==
    /\ PowerReturned /\ C2_Pre =>
          LET delta == WrappingSub(Current, cpu_energy)
          IN  power = IF Small(delta)
                      THEN Min(Rounded(Value(delta), AsMillis(update) * 1000), 999)
                      ELSE 999
    /\ pc = "panic_get_power" => ~(LiveRead /\ ~Less(Current, cpu_energy))

\* a call that returned a rounded-up quotient below the ceiling
C2_Witness ==
    /\ PowerReturned
    /\ C2_Pre
    /\ Current = Word(501, 4)
    /\ cpu_energy = Word(1, 4)
    /\ AsMillis(update) = 1
    /\ power = 1

\* a call whose quotient is clamped
C2_WitnessClamp == PowerReturned /\ C2_Pre /\ power = 999

\* C4: get_power returns 0 whenever the probed range is 0, the baseline is 0 or
\* elapsed_ms is 0, and when the live reading is 0; and when the probed range is
\* 0, bytes 8-9 of every packet written are 0 whatever the other readings are.
C4_PowerZero ==
    /\ PowerEnded /\ ( \/ IsZero(rapl_max_uj)
                       \/ IsZero(cpu_energy)
                       \/ AsMillis(update) = 0
                       \/ (LiveRead /\ IsZero(Current)) )
          => pc # "panic_get_power" /\ power = 0
    /\ Written /\ IsZero(rapl_max_uj) =>
          Byte(status_data, 8) = 0 /\ Byte(status_data, 9) = 0

\* a packet written without RAPL while the other readings are non-zero
C4_Witness ==
    /\ Written
    /\ IsZero(rapl_max_uj)
    /\ temp > 0
    /\ usage > 0

\* get_power called by itself with a non-zero baseline and interval, no RAPL
C4_WitnessCall ==
    /\ pc = "returned"
    /\ IsZero(rapl_max_uj)
    /\ ~IsZero(cpu_energy)
    /\ AsMillis(update) > 0

\* C5: every packet written, in every iteration, is 64 bytes long with bytes 0-7
\* the header 16, 104, 1, 2, 11, 1, 2, 5 and bytes 18-63 zero; an iteration starts
\* from a copy of the template, the template is never modified, and the fields
\* of a packet are those of its own iteration.
C5_HeaderAndPadding ==
    /\ Written =>
          /\ Len(status_data) = 64
          /\ \A i \in 0..7 : Byte(status_data, i) = Header[i + 1]
          /\ \A i \in 18..63 : Byte(status_data, i) = 0
          /\ status_data =
                [i \in 1..64 |->
                    CASE i \in 1..8 -> Header[i]
                      [] i = 9 -> power \div 256
                      [] i = 10 -> power % 256
                      [] i = 11 -> (IF fahrenheit THEN 1 ELSE 0)
                      [] i \in 12..15 -> F32BeBytes(temp)[i - 11]
                      [] i = 16 -> usage
                      [] i = 17 -> Byte(status_data, 16)
                      [] i = 18 -> 22
                      [] OTHER -> 0]
    /\ pc = "instant" => status_data = base_data
    /\ pc \in RunPositions =>
          /\ Len(base_data) = 64
          /\ \A i \in 0..7 : Byte(base_data, i) = Header[i + 1]
          /\ \A i \in 8..63 : Byte(base_data, i) = 0

\* the packet of a later iteration, all of whose fields are non-zero
C5_Witness ==
    /\ Written
    /\ writes >= 2
    /\ power > 0
    /\ temp > 0
    /\ usage > 0

\* C6: without a temperature sensor get_temp returns 0 for both units, and every
\* packet written holds 0.0 as a big-endian f32 in bytes 11-14 while byte 10 is
\* the requested unit: 0 for Celsius, 1 for Fahrenheit.
C6_NoSensor ==
    ~temp_sensor =>
        /\ pc # "panic_get_temp"
        /\ Count("get_temp") = 1 => temp = 0 /\ temp_file = NoFile
        /\ Written =>
              /\ \A i \in 11..14 : Byte(status_data, i) = 0
              /\ Byte(status_data, 10) = (IF fahrenheit THEN 1 ELSE 0)

\* a packet written without a sensor, Fahrenheit requested
C6_Witness ==
    /\ Written
    /\ ~temp_sensor
    /\ fahrenheit
    /\ power > 0

\* C3: a call get_power(baseline, elapsed_ms) with max_range > 0, baseline > 0,
\* elapsed_ms > 0 and a live reading 0 < current < baseline returns
\* round(((max_range + current) - baseline) / (elapsed_ms * 1000)), for all
\* 64-bit values of max_range, current and baseline.  The sum and the
\* difference of the formula are taken in five limbs, where neither overflows.
C3_Pre ==
    /\ ~IsZero(rapl_max_uj)
    /\ ~IsZero(cpu_energy)
    /\ AsMillis(update) > 0
    /\ LiveRead
    /\ ~IsZero(Current)
    /\ Less(Current, cpu_energy)

C3_WitnessOverflow ==
    /\ PowerReturned
    /\ C3_Pre
    /\ rapl_max_uj = U64Max
    /\ ~overflow_checks
    /\ power = 1

\* C7: for every raw milli-degree reading t that parses as a u32, with
\* Fahrenheit requested the milli-degree value before the division is
\* t * 9 / 5 + 32000 and the result is that value divided by 1000 and rounded.
\* t * 9 / 5 + 32000 is taken in three limbs, where it cannot overflow.
C7_Fahrenheit ==
    temp_sensor /\ fahrenheit /\ temp_file.kind # "none" /\ ParseOk(temp_file, 2) =>
        LET t == Extend(Parsed(temp_file, 2), 3)
            milli == WrappingAdd(Div(WrappingMul(t, 9), 5), Word(32000, 3))
        IN  /\ pc # "panic_get_temp"
            /\ Extend(temp_milli, 3) = milli
            /\ Small(milli)
            /\ temp = Rounded(Value(milli), 1000)

\* C8: a failed device write is fatal (nothing of the loop runs after it), and
\* as long as every write succeeds and the CPU-accounting primitive is
\* available the loop reaches no terminal state and writes exactly one packet
\* per iteration.
C8_OnlyWriteIsFatal ==
    /\ pc = "panic_write" => ~ENABLED Next
    /\ pc \in {"panic_write", "exited", "panic_get_power", "panic_get_temp"}
          /\ cycle > 0 => pc \in {"panic_write", "exited"}
    /\ writes = (IF pc = "loop" \/ cycle = 0 THEN cycle ELSE cycle - 1)

\* C9: a temperature or energy read or parse failure gives 0 for that metric in
\* the packet of that iteration only: it does not end the loop, the read is not
\* repeated within the iteration, every iteration reads its sources again, and
\* the packet of an iteration is made of the readings of that iteration alone,
\* whatever failed before.
C9_FailureIsZeroOnce ==
    /\ ReadFailed(temp_file, 2) =>
          /\ temp = 0
          /\ pc # "panic_get_temp"
          /\ Written => \A i \in 11..14 : Byte(status_data, i) = 0
    /\ ReadFailed(energy_file, 4) =>
          /\ IsZero(cpu_energy)
          /\ power = 0
          /\ ~LiveRead
          /\ Written => Byte(status_data, 8) = 0 /\ Byte(status_data, 9) = 0
    /\ ReadFailed(current_file, 4) =>
          /\ power = 0
          /\ pc # "panic_get_power"
          /\ Written => Byte(status_data, 8) = 0 /\ Byte(status_data, 9) = 0
    /\ \A e \in {"read_energy", "live_energy", "get_temp"} : Count(e) <= 1
    /\ Written =>
          /\ temp_sensor => temp_file.kind # "none"
          /\ ~IsZero(rapl_max_uj) => energy_file.kind # "none"
          /\ Byte(status_data, 8) * 256 + Byte(status_data, 9) = power
          /\ temp_file = Number(Word(45500, 3)) /\ ~fahrenheit =>
                /\ temp = 46
                /\ \A i \in 11..14 : Byte(status_data, i) = <<66, 56, 0, 0>>[i - 10]
          /\ /\ energy_file = Number(Word(1, 5))
             /\ current_file = Number(Word(501, 5))
             /\ AsMillis(update) = 1
             => power = 1

\* after an iteration with a failed read, an iteration whose packet carries
\* the real readings
C9_Witness ==
    /\ Written
    /\ prev_fail
    /\ ~CycleFailed
    /\ temp = 46
    /\ power = 1

\* an iteration with a failed temperature read that went on to write its packet
C9_WitnessFailed == Written /\ ReadFailed(temp_file, 2) /\ ReadFailed(current_file, 4)

\* C10: in every iteration the events occur in this order: baseline instant,
\* baseline energy, the one sleep, the live energy read, the temperature, the
\* fresh instant, the checksum, the one write; no baseline is used in another
\* iteration than the one that took it; and the live energy read is skipped
\* exactly when (as claimed) the baseline energy reading was 0.
IsPrefix(s, t) == Len(s) <= Len(t) /\ \A i \in 1..Len(s) : s[i] = t[i]
Order ==
    <<"read_instant", "read_energy", "sleep", "live_energy", "get_temp",
      "get_usage", "checksum", "write">>
OrderSkipped ==
    <<"read_instant", "read_energy", "sleep", "get_temp", "get_usage",
      "checksum", "write">>
\* the power statement of this iteration has run
PowerDone == Len(trace) >= 3 /\ pc # "power"

C10_OrderAndBaselines ==
    /\ IsPrefix(trace, Order) \/ IsPrefix(trace, OrderSkipped)
    /\ Written => trace \in {Order, OrderSkipped}
    /\ Count("read_instant") = 1 => cpu_instant = cycle
    /\ Count("read_energy") = 1 => cpu_energy = read_energy(rapl_max_uj, energy_file)
    /\ Count("get_usage") = 1 => usage_from = cycle

C10_Original ==
    /\ C10_OrderAndBaselines
    /\ PowerDone => (Count("live_energy") = 0 <=> IsZero(cpu_energy))

\* C10 as amended: the live energy read is skipped exactly when the baseline
\* energy reading was 0 or the interval is shorter than one millisecond.
C10_Amended ==
    /\ C10_OrderAndBaselines
    /\ PowerDone =>
          (Count("live_energy") = 0 <=> (IsZero(cpu_energy) \/ AsMillis(update) = 0))

\* a completed iteration with every event, the live read included
C10_Witness == Written /\ trace = Order /\ writes = cycle

\* a non-zero baseline whose live read was skipped for a sub-millisecond interval
C10_WitnessSkipped ==
    /\ PowerDone
    /\ ~IsZero(cpu_energy)
    /\ AsMillis(update) = 0
    /\ Count("live_energy") = 0

====
